---- MODULE Spec2Model ----
(***************************************************************************)
(* Model of scripts/extract-messages.py: the MessageExtractor, which walks *)
(* a flat knowledge model (chapters -> questions -> choices / answers /    *)
(* references) depth first and collects ExtractedMessage records, and      *)
(* build_pot, which groups the records by msgid and writes the catalog.    *)
(*                                                                         *)
(* The recursion of the visitors is kept as a stack of pending calls: the  *)
(* head of `calls` is the visitor call that runs next, and a visitor puts  *)
(* the calls of its loops in front of the rest, in loop order.             *)
(***************************************************************************)
EXTENDS Naturals, Sequences, FiniteSets

VARIABLES km, messages, calls, pc, err, file, runs, returns, misses

vars == <<km, messages, calls, pc, err, file, runs, returns, misses>>

----------------------------------------------------------------------------
(* Bounds of the model *)

\* longest identifier list (chapter_uuids, question_uuids, choice_uuids, ...)
MaxList == 2
\* calls of extract_messages on one MessageExtractor
MaxRuns == 2
\* the interpreter's limit on nested calls, scaled down
RecursionLimit == 7

----------------------------------------------------------------------------
(* Strings.  A Python str is compared code point by code point, so every   *)
(* string of the model has its code points.                                *)

Code(s) ==
  CASE s = "" -> <<>>
    [] s = "chapter" -> <<99, 104, 97, 112, 116, 101, 114>>
    [] s = "question" -> <<113, 117, 101, 115, 116, 105, 111, 110>>
    [] s = "choice" -> <<99, 104, 111, 105, 99, 101>>
    [] s = "answer" -> <<97, 110, 115, 119, 101, 114>>
    [] s = "url-reference" ->
        <<117, 114, 108, 45, 114, 101, 102, 101, 114, 101, 110, 99, 101>>
    [] s = "cross-reference" ->
        <<99, 114, 111, 115, 115, 45, 114, 101, 102, 101, 114, 101, 110, 99, 101>>
    [] s = "tag" -> <<116, 97, 103>>
    [] s = "metrics" -> <<109, 101, 116, 114, 105, 99, 115>>
    [] s = "phase" -> <<112, 104, 97, 115, 101>>
    [] s = "resource_collection" ->
        <<114, 101, 115, 111, 117, 114, 99, 101, 95, 99, 111, 108, 108, 101, 99, 116, 105, 111, 110>>
    [] s = "resource_page" ->
        <<114, 101, 115, 111, 117, 114, 99, 101, 95, 112, 97, 103, 101>>
    [] s = "title" -> <<116, 105, 116, 108, 101>>
    [] s = "text" -> <<116, 101, 120, 116>>
    [] s = "label" -> <<108, 97, 98, 101, 108>>
    [] s = "advice" -> <<97, 100, 118, 105, 99, 101>>
    [] s = "description" -> <<100, 101, 115, 99, 114, 105, 112, 116, 105, 111, 110>>
    [] s = "name" -> <<110, 97, 109, 101>>
    [] s = "content" -> <<99, 111, 110, 116, 101, 110, 116>>
    [] s = "c1" -> <<99, 49>>
    [] s = "q1" -> <<113, 49>>
    [] s = "q2" -> <<113, 50>>
    [] s = "h1" -> <<104, 49>>
    [] s = "h2" -> <<104, 50>>
    [] s = "a1" -> <<97, 49>>
    [] s = "r1" -> <<114, 49>>
    [] s = "t1" -> <<116, 49>>
    [] s = "m1" -> <<109, 49>>
    [] s = "p1" -> <<112, 49>>
    [] s = "k1" -> <<107, 49>>
    [] s = "g1" -> <<103, 49>>
    [] s = "Intro" -> <<73, 110, 116, 114, 111>>
    [] s = "Name?" -> <<78, 97, 109, 101, 63>>
    [] s = "See docs" -> <<83, 101, 101, 32, 100, 111, 99, 115>>
    [] s = "Yes" -> <<89, 101, 115>>
    [] s = "No" -> <<78, 111>>

\* the code point of ':'
Colon == 58

\* s < t for two strings given by their code points (Python's str order)
RECURSIVE StrLess(_, _)
StrLess(s, t) ==
  IF t = <<>> THEN FALSE
  ELSE IF s = <<>> THEN TRUE
  ELSE IF Head(s) # Head(t) THEN Head(s) < Head(t)
  ELSE StrLess(Tail(s), Tail(t))

Range(f) == {f[i] : i \in DOMAIN f}

----------------------------------------------------------------------------
(* The knowledge model (dsw.models.knowledge_model.flat): nodes are records *)
(* with the class they are an instance of; a registry is a function from   *)
(* the uuids it holds to nodes.                                            *)

ChapterIds == {"c1"}
QuestionIds == {"q1", "q2"}
ChoiceIds == {"h1", "h2"}
AnswerIds == {"a1"}
ReferenceIds == {"r1"}
AllIds == ChapterIds \cup QuestionIds \cup ChoiceIds \cup AnswerIds \cup ReferenceIds

\* what dict.get returns for a key the dict does not hold
None == [class |-> "NoneType"]

\* d.get(k)
Get(d, k) == IF k \in DOMAIN d THEN d[k] ELSE None

\* isinstance(obj, cls); the node classes do not derive from one another
IsInstance(obj, cls) == obj.class = cls

\* bool(s) of a str
Truthy(s) == s # ""

\* the identifier lists of at most MaxList entries over S
Lists(S) == UNION {[1..n -> S] : n \in 0..MaxList}

\* the node classes of km_flat that the visitors tell apart
QuestionClasses == {"ValueQuestion", "ListQuestion", "MultiChoiceQuestion", "OptionsQuestion"}
ReferenceClasses == {"URLReference", "CrossReference", "ResourcePageReference"}

\* the translatable fields of the nodes whose text the inputs vary
Fields ==
  {<<"c1", "title">>, <<"c1", "text">>, <<"q1", "title">>, <<"q1", "text">>,
   <<"q2", "title">>, <<"q2", "text">>, <<"h1", "label">>, <<"h2", "label">>,
   <<"a1", "label">>, <<"a1", "advice">>, <<"r1", "label">>}

\* the text of a field in the inputs that vary the structure only
DefaultText(f) ==
  CASE f = <<"c1", "title">> -> "Intro"
    [] f = <<"c1", "text">> -> ""
    [] f = <<"q1", "title">> -> "Name?"
    [] f = <<"q1", "text">> -> "Yes"
    [] f = <<"q2", "title">> -> "Name?"
    [] f = <<"q2", "text">> -> ""
    [] f = <<"h1", "label">> -> "Yes"
    [] f = <<"h2", "label">> -> "No"
    [] f = <<"a1", "label">> -> "No"
    [] f = <<"a1", "advice">> -> "See docs"
    [] f = <<"r1", "label">> -> "See docs"

DefaultTexts == [f \in Fields |-> DefaultText(f)]

\* a question node: v gives its class, its list of children and its references
MkQuestion(id, v, tx) ==
  CASE v.class = "ListQuestion" ->
         [class |-> v.class, uuid |-> id, title |-> tx[<<id, "title">>],
          text |-> tx[<<id, "text">>], reference_uuids |-> v.refs,
          item_template_question_uuids |-> v.kids]
    [] v.class = "MultiChoiceQuestion" ->
         [class |-> v.class, uuid |-> id, title |-> tx[<<id, "title">>],
          text |-> tx[<<id, "text">>], reference_uuids |-> v.refs,
          choice_uuids |-> v.kids]
    [] v.class = "OptionsQuestion" ->
         [class |-> v.class, uuid |-> id, title |-> tx[<<id, "title">>],
          text |-> tx[<<id, "text">>], reference_uuids |-> v.refs,
          answer_uuids |-> v.kids]
    [] OTHER ->
         [class |-> v.class, uuid |-> id, title |-> tx[<<id, "title">>],
          text |-> tx[<<id, "text">>], reference_uuids |-> v.refs]

\* a reference node of class cls
MkReference(id, cls, tx) ==
  CASE cls = "URLReference" ->
         [class |-> cls, uuid |-> id, url |-> "", label |-> tx[<<id, "label">>]]
    [] cls = "CrossReference" ->
         [class |-> cls, uuid |-> id, target_uuid |-> "", description |-> tx[<<id, "label">>]]
    [] OTHER -> [class |-> cls, uuid |-> id, resource_page_uuid |-> "g1"]

\* the KnowledgeModel of structure sh and texts tx; sh.missing is the one uuid
\* (if any) that the registry does not hold
MkKM(sh, tx) ==
  [chapter_uuids |-> sh.chapter_uuids,
   tag_uuids |-> <<"t1">>,
   metric_uuids |-> <<"m1">>,
   phase_uuids |-> <<"p1">>,
   resource_collection_uuids |-> <<"k1">>,
   entities |->
     [chapters |-> [id \in ChapterIds \ {sh.missing} |->
         [class |-> "Chapter", uuid |-> id, title |-> tx[<<id, "title">>],
          text |-> tx[<<id, "text">>], question_uuids |-> sh.c1qs]],
      questions |-> [id \in QuestionIds \ {sh.missing} |->
         MkQuestion(id, IF id = "q1" THEN sh.q1 ELSE sh.q2, tx)],
      choices |-> [id \in ChoiceIds \ {sh.missing} |->
         [class |-> "Choice", uuid |-> id, label |-> tx[<<id, "label">>]]],
      answers |-> [id \in AnswerIds \ {sh.missing} |->
         [class |-> "Answer", uuid |-> id, label |-> tx[<<id, "label">>],
          advice |-> tx[<<id, "advice">>], follow_up_uuids |-> sh.a1fu]],
      references |-> [id \in ReferenceIds \ {sh.missing} |->
         MkReference(id, sh.r1cls, tx)],
      tags |-> [id \in {"t1"} |->
         [class |-> "Tag", uuid |-> id, name |-> "Yes", description |-> "No"]],
      metrics |-> [id \in {"m1"} |->
         [class |-> "Metric", uuid |-> id, title |-> "Yes", description |-> ""]],
      phases |-> [id \in {"p1"} |->
         [class |-> "Phase", uuid |-> id, title |-> "No", description |-> "Yes"]],
      resource_collections |-> [id \in {"k1"} |->
         [class |-> "ResourceCollection", uuid |-> id, title |-> "Intro",
          resource_page_uuids |-> <<"g1">>]],
      resource_pages |-> [id \in {"g1"} |->
         [class |-> "ResourcePage", uuid |-> id, title |-> "Intro", content |-> "Yes"]]]]

----------------------------------------------------------------------------
(* The inputs.  The structure varies with the default texts, in depth      *)
(* (InitDeep) and in breadth (InitWide), over identifier lists of at most  *)
(* MaxList entries; the texts vary over TextDom on a few fixed structures  *)
(* (InitTexts).                                                            *)

QuestionVariants ==
  {[class |-> "ValueQuestion", kids |-> <<>>, refs |-> r] : r \in Lists(ReferenceIds)}
    \cup {[class |-> "ListQuestion", kids |-> l, refs |-> r] :
            l \in Lists(QuestionIds), r \in Lists(ReferenceIds)}
    \cup {[class |-> "MultiChoiceQuestion", kids |-> l, refs |-> r] :
            l \in Lists(ChoiceIds), r \in Lists(ReferenceIds)}
    \cup {[class |-> "OptionsQuestion", kids |-> l, refs |-> r] :
            l \in Lists(AnswerIds), r \in Lists(ReferenceIds)}

LeafQuestion == [class |-> "ValueQuestion", kids |-> <<>>, refs |-> <<>>]

\* the second question is a leaf or holds one fixed list of its kind
SecondQuestionVariants ==
  {LeafQuestion,
   [class |-> "ListQuestion", kids |-> <<"q1">>, refs |-> <<>>],
   [class |-> "MultiChoiceQuestion", kids |-> <<"h2", "h1">>, refs |-> <<>>],
   [class |-> "OptionsQuestion", kids |-> <<"a1">>, refs |-> <<"r1">>]}

TextDom == {"", "No", "Yes"}

\* a structure with everything resolvable, one chapter listing q1 once
TextShape(v1, fu, rc) ==
  [chapter_uuids |-> <<"c1">>, c1qs |-> <<"q1">>, q1 |-> v1, q2 |-> LeafQuestion,
   a1fu |-> fu, r1cls |-> rc, missing |-> "none"]

\* the first question as a leaf with a reference or with one fixed list of
\* each kind
FirstQuestionVariants ==
  {LeafQuestion,
   [class |-> "ValueQuestion", kids |-> <<>>, refs |-> <<"r1">>],
   [class |-> "ListQuestion", kids |-> <<"q2">>, refs |-> <<"r1">>],
   [class |-> "MultiChoiceQuestion", kids |-> <<"h1", "h2">>, refs |-> <<>>],
   [class |-> "OptionsQuestion", kids |-> <<"a1">>, refs |-> <<>>]}

\* the structures whose texts vary, each with the fields its traversal reads
TextCases ==
  {[sh |-> TextShape([class |-> "ValueQuestion", kids |-> <<>>, refs |-> <<"r1">>],
                     <<>>, rc),
    fields |-> {<<"c1", "title">>, <<"c1", "text">>, <<"q1", "title">>,
                <<"q1", "text">>, <<"r1", "label">>}] : rc \in {"URLReference", "CrossReference"}}
    \cup
  {[sh |-> TextShape([class |-> "MultiChoiceQuestion", kids |-> <<"h1", "h2">>,
                      refs |-> <<>>], <<>>, "URLReference"),
    fields |-> {<<"c1", "title">>, <<"q1", "title">>, <<"q1", "text">>,
                <<"h1", "label">>, <<"h2", "label">>}],
   [sh |-> TextShape([class |-> "OptionsQuestion", kids |-> <<"a1">>, refs |-> <<>>],
                     <<"q2">>, "URLReference"),
    fields |-> {<<"q1", "title">>, <<"a1", "label">>, <<"a1", "advice">>,
                <<"q2", "title">>, <<"q2", "text">>}]}

----------------------------------------------------------------------------
(* ExtractedMessage *)

ExtractedMessage(msgid, entity_type, entity_uuid, entity_attribute) ==
  [msgid |-> msgid, entity_type |-> entity_type, entity_uuid |-> entity_uuid,
   entity_attribute |-> entity_attribute]

\* f'{self.entity_type}:{self.entity_uuid}:{self.entity_attribute}', as code points
path(m) ==
  Code(m.entity_type) \o <<Colon>> \o Code(m.entity_uuid) \o <<Colon>>
    \o Code(m.entity_attribute)

line(m) == 0

----------------------------------------------------------------------------
(* The visitors of MessageExtractor.  A visitor called at depth d gives    *)
(* the messages it appends and the visitor calls of its loops, in order,   *)
(* or the exception its first attribute access raises on None.             *)

Call(fn, arg, d) == [fn |-> fn, arg |-> arg, depth |-> d]

CallEach(fn, uuids, d) == [i \in 1..Len(uuids) |-> Call(fn, uuids[i], d)]

\* obj.attr on an object without that attribute
AttributeError(obj, attr) == [type |-> "AttributeError", args |-> <<obj.class, attr>>]

RecursionError == [type |-> "RecursionError", args |-> <<"maximum recursion depth exceeded">>]

HasAttr(obj, attr) == attr \in DOMAIN obj

Raised(e) == [raise |-> e, msgs |-> <<>>, calls |-> <<>>]

Done(msgs, cs) == [raise |-> <<>>, msgs |-> msgs, calls |-> cs]

\* extract_messages_answer without the loop over the follow-up questions
extract_messages_answer_no_follow_up(answer, d) ==
  IF ~HasAttr(answer, "label") THEN Raised(AttributeError(answer, "label"))
  ELSE Done(
    <<ExtractedMessage(answer.label, "answer", answer.uuid, "label")>>
      \o (IF Truthy(answer.advice)
          THEN <<ExtractedMessage(answer.advice, "answer", answer.uuid, "advice")>>
          ELSE <<>>),
    <<>>)

extract_messages_answer(answer, d) ==
  IF ~HasAttr(answer, "label") THEN Raised(AttributeError(answer, "label"))
  ELSE Done(
    <<ExtractedMessage(answer.label, "answer", answer.uuid, "label")>>
      \o (IF Truthy(answer.advice)
          THEN <<ExtractedMessage(answer.advice, "answer", answer.uuid, "advice")>>
          ELSE <<>>),
    CallEach("question", answer.follow_up_uuids, d + 1))

extract_messages_choice(choice, d) ==
  IF ~HasAttr(choice, "label") THEN Raised(AttributeError(choice, "label"))
  ELSE Done(<<ExtractedMessage(choice.label, "choice", choice.uuid, "label")>>, <<>>)

\* the loops of _extract_messages_question, in the order of the code
question_loops(question, d) ==
  (IF IsInstance(question, "ListQuestion")
   THEN CallEach("question", question.item_template_question_uuids, d + 1)
   ELSE <<>>)
    \o (IF IsInstance(question, "MultiChoiceQuestion")
        THEN CallEach("choice", question.choice_uuids, d + 1)
        ELSE <<>>)
    \o (IF IsInstance(question, "OptionsQuestion")
        THEN CallEach("answer", question.answer_uuids, d + 1)
        ELSE <<>>)
    \o CallEach("reference", question.reference_uuids, d + 1)

\* extract_messages_question with the text message given the attribute of the
\* title message
extract_messages_question_text_as_title(question, d) ==
  IF ~HasAttr(question, "title") THEN Raised(AttributeError(question, "title"))
  ELSE Done(
    <<ExtractedMessage(question.title, "question", question.uuid, "title")>>
      \o (IF Truthy(question.text)
          THEN <<ExtractedMessage(question.text, "question", question.uuid, "title")>>
          ELSE <<>>),
    question_loops(question, d))

\* extract_messages_question with the loop over the references moved before
\* the loops over the children
extract_messages_question_references_first(question, d) ==
  IF ~HasAttr(question, "title") THEN Raised(AttributeError(question, "title"))
  ELSE Done(
    <<ExtractedMessage(question.title, "question", question.uuid, "title")>>
      \o (IF Truthy(question.text)
          THEN <<ExtractedMessage(question.text, "question", question.uuid, "text")>>
          ELSE <<>>),
    CallEach("reference", question.reference_uuids, d + 1)
      \o (IF IsInstance(question, "ListQuestion")
          THEN CallEach("question", question.item_template_question_uuids, d + 1)
          ELSE <<>>)
      \o (IF IsInstance(question, "MultiChoiceQuestion")
          THEN CallEach("choice", question.choice_uuids, d + 1)
          ELSE <<>>)
      \o (IF IsInstance(question, "OptionsQuestion")
          THEN CallEach("answer", question.answer_uuids, d + 1)
          ELSE <<>>))

extract_messages_question(question, d) ==
  IF ~HasAttr(question, "title") THEN Raised(AttributeError(question, "title"))
  ELSE Done(
    <<ExtractedMessage(question.title, "question", question.uuid, "title")>>
      \o (IF Truthy(question.text)
          THEN <<ExtractedMessage(question.text, "question", question.uuid, "text")>>
          ELSE <<>>),
    question_loops(question, d))

extract_messages_reference(reference, d) ==
  Done(
    (IF IsInstance(reference, "URLReference")
     THEN <<ExtractedMessage(reference.label, "url-reference", reference.uuid, "label")>>
     ELSE <<>>)
      \o (IF IsInstance(reference, "CrossReference")
          THEN <<ExtractedMessage(reference.description, "cross-reference",
                                  reference.uuid, "description")>>
          ELSE <<>>),
    <<>>)

\* extract_messages_chapter without the test of chapter.text
extract_messages_chapter_always_text(chapter, d) ==
  IF ~HasAttr(chapter, "title") THEN Raised(AttributeError(chapter, "title"))
  ELSE Done(
    <<ExtractedMessage(chapter.title, "chapter", chapter.uuid, "title"),
      ExtractedMessage(chapter.text, "chapter", chapter.uuid, "text")>>,
    CallEach("question", chapter.question_uuids, d + 1))

extract_messages_chapter(chapter, d) ==
  IF ~HasAttr(chapter, "title") THEN Raised(AttributeError(chapter, "title"))
  ELSE Done(
    <<ExtractedMessage(chapter.title, "chapter", chapter.uuid, "title")>>
      \o (IF Truthy(chapter.text)
          THEN <<ExtractedMessage(chapter.text, "chapter", chapter.uuid, "text")>>
          ELSE <<>>),
    CallEach("question", chapter.question_uuids, d + 1))

\* The visitors below are defined by the class and called by no other method.

extract_messages_phase(phase, d) ==
  IF ~HasAttr(phase, "title") THEN Raised(AttributeError(phase, "title"))
  ELSE Done(
    <<ExtractedMessage(phase.title, "phase", phase.uuid, "title")>>
      \o (IF Truthy(phase.description)
          THEN <<ExtractedMessage(phase.description, "phase", phase.uuid, "description")>>
          ELSE <<>>),
    <<>>)

extract_messages_tag(tag, d) ==
  IF ~HasAttr(tag, "name") THEN Raised(AttributeError(tag, "name"))
  ELSE Done(
    <<ExtractedMessage(tag.name, "tag", tag.uuid, "name")>>
      \o (IF Truthy(tag.description)
          THEN <<ExtractedMessage(tag.description, "tag", tag.uuid, "description")>>
          ELSE <<>>),
    <<>>)

extract_messages_metric(metric, d) ==
  IF ~HasAttr(metric, "title") THEN Raised(AttributeError(metric, "title"))
  ELSE Done(
    <<ExtractedMessage(metric.title, "metrics", metric.uuid, "title")>>
      \o (IF Truthy(metric.description)
          THEN <<ExtractedMessage(metric.description, "metrics", metric.uuid, "description")>>
          ELSE <<>>),
    <<>>)

extract_messages_resource_collection(rc, d) ==
  IF ~HasAttr(rc, "title") THEN Raised(AttributeError(rc, "title"))
  ELSE Done(
    <<ExtractedMessage(rc.title, "resource_collection", rc.uuid, "title")>>,
    CallEach("resource_page", rc.resource_page_uuids, d + 1))

extract_messages_resource_page(rp, d) ==
  IF ~HasAttr(rp, "title") THEN Raised(AttributeError(rp, "title"))
  ELSE Done(
    <<ExtractedMessage(rp.title, "resource_page", rp.uuid, "title")>>
      \o (IF Truthy(rp.content)
          THEN <<ExtractedMessage(rp.content, "resource_page", rp.uuid, "content")>>
          ELSE <<>>),
    <<>>)

\* reset that leaves the list as it is
reset_keep(msgs) == msgs

\* MessageExtractor.reset: self.messages.clear()
reset(msgs) == <<>>

\* extract_messages with a second loop, over the tags
RootCalls_with_tags(k) ==
  CallEach("chapter", k.chapter_uuids, 1) \o CallEach("tag", k.tag_uuids, 1)

\* the loop of extract_messages: one chapter visitor call per entry of chapter_uuids
RootCalls(k) == CallEach("chapter", k.chapter_uuids, 1)

----------------------------------------------------------------------------
(* build_pot *)

\* the grouping loop with an assignment in place of set.add: the last location
\* of a msgid replaces the earlier ones
locs_by_msgid_overwrite(msgs) ==
  LET kept == {i \in DOMAIN msgs : Truthy(msgs[i].msgid)}
  IN [t \in {msgs[i].msgid : i \in kept} |->
        LET last == CHOOSE i \in kept :
                      msgs[i].msgid = t /\ \A j \in kept : msgs[j].msgid = t => j <= i
        IN {<<path(msgs[last]), line(msgs[last])>>}]

\* locs_by_msgid after the grouping loop: msgid -> set of (path, line)
locs_by_msgid(msgs) ==
  LET kept == {i \in DOMAIN msgs : Truthy(msgs[i].msgid)}
  IN [t \in {msgs[i].msgid : i \in kept} |->
        {<<path(msgs[i]), line(msgs[i])>> : i \in {j \in kept : msgs[j].msgid = t}}]

\* (t[0], t[1]) < (u[0], u[1]) for two (path, line) tuples
LocationLess(t, u) == StrLess(t[1], u[1]) \/ (t[1] = u[1] /\ t[2] < u[2])

RECURSIVE sorted_locations(_), sorted_locations_reverse(_)

\* sorted(locs, key=lambda t: (t[0], t[1]), reverse=True)
sorted_locations_reverse(locs) ==
  IF locs = {} THEN <<>>
  ELSE LET m == CHOOSE t \in locs : \A u \in locs \ {t} : ~LocationLess(t, u)
       IN <<m>> \o sorted_locations_reverse(locs \ {m})

\* sorted(locs, key=lambda t: (t[0], t[1]))
sorted_locations(locs) ==
  IF locs = {} THEN <<>>
  ELSE LET m == CHOOSE t \in locs : \A u \in locs \ {t} : ~LocationLess(u, t)
       IN <<m>> \o sorted_locations(locs \ {m})

\* the msgids of sorted(locs_by_msgid.items(), key=lambda kv: kv[0])
RECURSIVE sorted_msgids(_)
sorted_msgids(ids) ==
  IF ids = {} THEN <<>>
  ELSE LET m == CHOOSE t \in ids : \A u \in ids \ {t} : ~StrLess(Code(u), Code(t))
       IN <<m>> \o sorted_msgids(ids \ {m})

\* the catalog after the loop of catalog.add calls, one message per msgid
catalog_messages(msgs) ==
  LET locs == locs_by_msgid(msgs)
      ids == sorted_msgids(DOMAIN locs)
  IN [i \in 1..Len(ids) |-> [id |-> ids[i], locations |-> sorted_locations(locs[ids[i]])]]

\* the file written by write_po(f, catalog, sort_output=True, width=-1)
build_pot(msgs) ==
  [project |-> "Common DSW Knowledge Model", version |-> "2.7.0", charset |-> "utf-8",
   messages |-> catalog_messages(msgs)]

----------------------------------------------------------------------------
(* The state *)

NoFile == [project |-> "", version |-> "", charset |-> "", messages |-> <<>>]

\* the structures drawn from the given lists and variants, with at most one
\* uuid of absent missing from the registry
InitStructureOver(cus, cqs, v1s, v2s, fus, rcs, absent) ==
  \E cu \in cus, cq \in cqs, v1 \in v1s, v2 \in v2s, fu \in fus, rc \in rcs,
     m \in {"none"} \cup absent :
       \* what no list names keeps one fixed form
       /\ (cu = <<>> \/ "q1" \notin Range(cq)) => v1 = LeafQuestion
       /\ (cu = <<>> \/ ("q2" \notin Range(cq)
                          /\ v1.class \notin {"ListQuestion", "OptionsQuestion"}))
            => v2 = LeafQuestion
       /\ "a1" \notin Range(v1.kids) \cup Range(v2.kids) => fu = <<>>
       /\ "r1" \notin Range(v1.refs) \cup Range(v2.refs) => rc = "URLReference"
       /\ m \in {"none"} \cup Range(cu) \cup Range(cq) \cup Range(v1.kids)
                  \cup Range(v1.refs) \cup Range(v2.kids)
       /\ km = MkKM([chapter_uuids |-> cu, c1qs |-> cq, q1 |-> v1, q2 |-> v2,
                     a1fu |-> fu, r1cls |-> rc, missing |-> m], DefaultTexts)

\* one chapter that lists the first question once; below it every list of at
\* most MaxList entries
InitDeep ==
  InitStructureOver({<<"c1">>}, {<<"q1">>}, QuestionVariants, SecondQuestionVariants,
                    Lists(QuestionIds), ReferenceClasses, AllIds)

\* every chapter list and every question list of the chapter of at most MaxList
\* entries, over questions that hold one fixed list of their kind
InitWide ==
  InitStructureOver(Lists(ChapterIds), Lists(QuestionIds), FirstQuestionVariants,
                    SecondQuestionVariants, Lists(QuestionIds), ReferenceClasses, AllIds)

InitTexts ==
  \E c \in TextCases : \E a \in [c.fields -> TextDom] :
    km = MkKM(c.sh, [f \in Fields |-> IF f \in c.fields THEN a[f] ELSE DefaultText(f)])

\* the state after MessageExtractor(km), before any catalog file exists
Constructed ==
  /\ messages = <<>>
  /\ calls = <<>>
  /\ pc = "idle"
  /\ err = <<>>
  /\ file = NoFile
  /\ runs = 0
  /\ returns = <<>>
  /\ misses = {}

Init == (InitDeep \/ InitWide \/ InitTexts) /\ Constructed

\* the inputs of InitDeep with at most the answer absent from the registry
InitLive ==
  /\ InitStructureOver({<<"c1">>}, {<<"q1">>}, QuestionVariants, SecondQuestionVariants,
                       Lists(QuestionIds), ReferenceClasses, {"a1"})
  /\ Constructed

----------------------------------------------------------------------------
(* The actions *)

\* extract_messages up to its loop: reset, then the chapter visitors are due
ExtractMessages ==
  /\ pc \in {"idle", "returned", "written"}
  /\ runs < MaxRuns
  /\ messages' = reset(messages)
  /\ calls' = RootCalls(km)
  /\ pc' = "running"
  /\ runs' = runs + 1
  /\ UNCHANGED <<km, err, file, returns, misses>>

\* the visitor call at the head of calls runs on node, the result of the lookup
\* km.entities.<name>.get(uuid) made by its caller; a call nested deeper than
\* the interpreter allows raises RecursionError instead
Visit(name, node, out) ==
  LET c == Head(calls)
  IN /\ misses' = IF node = None THEN misses \cup {[registry |-> name, uuid |-> c.arg]}
                  ELSE misses
     /\ IF c.depth > RecursionLimit
        THEN /\ pc' = "aborted"
             /\ err' = RecursionError
             /\ UNCHANGED <<messages, calls>>
        ELSE IF out.raise # <<>>
        THEN /\ pc' = "aborted"
             /\ err' = out.raise
             /\ UNCHANGED <<messages, calls>>
        ELSE /\ messages' = messages \o out.msgs
             /\ calls' = out.calls \o Tail(calls)
             /\ UNCHANGED <<pc, err>>
     /\ UNCHANGED <<km, file, runs, returns>>

Due(fn) == pc = "running" /\ calls # <<>> /\ Head(calls).fn = fn

VisitChapter ==
  /\ Due("chapter")
  /\ LET chapter == Get(km.entities.chapters, Head(calls).arg)
     IN Visit("chapters", chapter,
              extract_messages_chapter(chapter, Head(calls).depth))

VisitQuestion ==
  /\ Due("question")
  /\ LET question == Get(km.entities.questions, Head(calls).arg)
     IN Visit("questions", question,
              extract_messages_question(question, Head(calls).depth))

VisitChoice ==
  /\ Due("choice")
  /\ LET choice == Get(km.entities.choices, Head(calls).arg)
     IN Visit("choices", choice,
              extract_messages_choice(choice, Head(calls).depth))

VisitAnswer ==
  /\ Due("answer")
  /\ LET answer == Get(km.entities.answers, Head(calls).arg)
     IN Visit("answers", answer,
              extract_messages_answer(answer, Head(calls).depth))

VisitReference ==
  /\ Due("reference")
  /\ LET reference == Get(km.entities.references, Head(calls).arg)
     IN Visit("references", reference,
              extract_messages_reference(reference, Head(calls).depth))

\* return self.messages
Return ==
  /\ pc = "running"
  /\ calls = <<>>
  /\ pc' = "returned"
  /\ returns' = Append(returns, messages)
  /\ UNCHANGED <<km, messages, calls, err, file, runs, misses>>

\* build_pot called although extract_messages raised (as from a finally clause)
ReachesBuildPot_after_abort(p) == p \in {"returned", "aborted"}

\* __main__ reaches the build_pot statement only when extract_messages returned
ReachesBuildPot(p) == p = "returned"

\* build_pot(messages, output_file)
BuildPot ==
  /\ ReachesBuildPot(pc)
  /\ file' = build_pot(messages)
  /\ pc' = "written"
  /\ UNCHANGED <<km, messages, calls, err, runs, returns, misses>>

Next ==
  \/ ExtractMessages
  \/ VisitChapter
  \/ VisitQuestion
  \/ VisitChoice
  \/ VisitAnswer
  \/ VisitReference
  \/ Return
  \/ BuildPot

Spec == Init /\ [][Next]_vars

\* The interpreter runs the script statement after statement: a pending visitor
\* call is made and a finished loop returns.
SpecLive ==
  /\ InitLive
  /\ [][Next]_vars
  /\ WF_vars(VisitChapter)
  /\ WF_vars(VisitQuestion)
  /\ WF_vars(VisitChoice)
  /\ WF_vars(VisitAnswer)
  /\ WF_vars(VisitReference)
  /\ WF_vars(Return)

----------------------------------------------------------------------------
(* The knowledge model as a graph, read off the registry: what the claims  *)
(* call reachable, shared, cyclic and resolvable.  A node is <<kind, uuid>>.*)

Registry(kind) ==
  CASE kind = "chapter" -> km.entities.chapters
    [] kind = "question" -> km.entities.questions
    [] kind = "choice" -> km.entities.choices
    [] kind = "answer" -> km.entities.answers
    [] kind = "reference" -> km.entities.references

Node(n) == Get(Registry(n[1]), n[2])

Entries(kind, uuids) == [i \in 1..Len(uuids) |-> <<kind, uuids[i]>>]

Roots == Entries("chapter", km.chapter_uuids)

\* the entries of the lists of node n, in the order the specification gives:
\* item-template questions, choices, answers, and last the references
ChildList(n) ==
  LET x == Node(n)
  IN IF x = None THEN <<>>
     ELSE CASE n[1] = "chapter" -> Entries("question", x.question_uuids)
            [] n[1] = "answer" -> Entries("question", x.follow_up_uuids)
            [] n[1] = "question" ->
                 (CASE x.class = "ListQuestion" ->
                         Entries("question", x.item_template_question_uuids)
                    [] x.class = "MultiChoiceQuestion" -> Entries("choice", x.choice_uuids)
                    [] x.class = "OptionsQuestion" -> Entries("answer", x.answer_uuids)
                    [] OTHER -> <<>>)
                   \o Entries("reference", x.reference_uuids)
            [] OTHER -> <<>>

RECURSIVE Closure(_)
Closure(S) ==
  LET T == S \cup UNION {Range(ChildList(n)) : n \in S}
  IN IF T = S THEN S ELSE Closure(T)

\* every node some list names on a path from the root chapter list
Reached == Closure(Range(Roots))

Resolvable == \A n \in Reached : Node(n) # None

\* some reached node is its own descendant
Cyclic == \E n \in Reached : n \in Closure(Range(ChildList(n)))

NoDuplicate(seq) == \A i, j \in DOMAIN seq : i # j => seq[i] # seq[j]

\* no reached node is named by two list entries
NoSharing ==
  /\ NoDuplicate(Roots)
  /\ \A n \in Reached : NoDuplicate(ChildList(n))
  /\ \A n, o \in Reached : n # o => Range(ChildList(n)) \cap Range(ChildList(o)) = {}

\* the fields of node n that the specification has emitted, in its order:
\* the always-emitted field whatever its value, the optional one if non-empty
OwnSeq(n) ==
  LET x == Node(n)
      opt(v, t, a) == IF v # "" THEN <<ExtractedMessage(v, t, n[2], a)>> ELSE <<>>
  IN IF x = None THEN <<>>
     ELSE CASE n[1] = "chapter" ->
                 <<ExtractedMessage(x.title, "chapter", n[2], "title")>>
                   \o opt(x.text, "chapter", "text")
            [] n[1] = "question" ->
                 <<ExtractedMessage(x.title, "question", n[2], "title")>>
                   \o opt(x.text, "question", "text")
            [] n[1] = "choice" -> <<ExtractedMessage(x.label, "choice", n[2], "label")>>
            [] n[1] = "answer" ->
                 <<ExtractedMessage(x.label, "answer", n[2], "label")>>
                   \o opt(x.advice, "answer", "advice")
            [] n[1] = "reference" ->
                 (CASE x.class = "URLReference" ->
                         <<ExtractedMessage(x.label, "url-reference", n[2], "label")>>
                    [] x.class = "CrossReference" ->
                         <<ExtractedMessage(x.description, "cross-reference", n[2],
                                            "description")>>
                    [] OTHER -> <<>>)

Triple(m) == <<m.entity_type, m.entity_uuid, m.entity_attribute>>

----------------------------------------------------------------------------
(* The claims *)

\* the (text, location) pairs of the non-empty fields of the reached nodes
ExpectedLocations ==
  {[text |-> m.msgid, loc |-> <<path(m), 0>>] :
     m \in {o \in UNION {Range(OwnSeq(n)) : n \in Reached} : o.msgid # ""}}

\* the places (entry, position) of the catalog file that hold location e.loc
\* under the entry of text e.text
PlacesOf(e) ==
  {ij \in UNION {{<<i, j>> : j \in DOMAIN file.messages[i].locations} :
                   i \in DOMAIN file.messages} :
     /\ file.messages[ij[1]].id = e.text
     /\ file.messages[ij[1]].locations[ij[2]] = e.loc}

\* C1: once the catalog is written, every non-empty field of every node reached
\* from the root chapter list has its location exactly once under the entry of
\* its text, and every location of every entry is such a field's location.
C1_CatalogIsExactlyTheReachedFields ==
  pc = "written" =>
    /\ \A e \in ExpectedLocations : Cardinality(PlacesOf(e)) = 1
    /\ \A i \in DOMAIN file.messages : \A j \in DOMAIN file.messages[i].locations :
         [text |-> file.messages[i].id, loc |-> file.messages[i].locations[j]]
           \in ExpectedLocations

\* a catalog of three or more entries was written for a model whose reached
\* nodes include a question and a reference
C1_Witness ==
  /\ pc = "written"
  /\ Len(file.messages) >= 3
  /\ \E n \in Reached : n[1] = "reference" /\ OwnSeq(n) # <<>>

UniqueTriples(msgs) ==
  \A i, j \in DOMAIN msgs : i # j => Triple(msgs[i]) # Triple(msgs[j])

\* C2 as stated: the returned message list never holds one triple twice,
\* whatever the input.
C2_TriplesUniqueAlways == pc = "returned" => UniqueTriples(messages)

\* C2 amended: the message list never holds one triple twice when no reached
\* node is named by two list entries.
C2_TriplesUniqueWithoutSharing == NoSharing => UniqueTriples(messages)

\* a traversal of an unshared structure returned five or more messages
C2_Witness == pc = "returned" /\ NoSharing /\ Len(messages) >= 5

\* the error names the uuid and the registry of a lookup that missed
ErrorNames(m) == m.uuid \in Range(err.args) /\ m.registry \in Range(err.args)

\* C3 as stated: once a lookup has missed, the run is aborted with an error
\* naming the missing uuid and the expected entity type, and no catalog is
\* written.
C3_MissAbortsNamingTheIdentifier ==
  misses # {} =>
    /\ pc = "aborted"
    /\ \E m \in misses : ErrorNames(m)
    /\ file = NoFile

\* C4: the written catalog has exactly one entry per distinct non-empty msgid
\* of the messages, and the locations of an entry are the paths of all the
\* messages of that msgid, in strictly ascending order of the path string.
C4_OneEntryPerTextSortedUnion ==
  pc = "written" =>
    LET es == file.messages
    IN /\ {es[i].id : i \in DOMAIN es}
            = {messages[k].msgid : k \in DOMAIN messages} \ {""}
       /\ \A i, j \in DOMAIN es : i # j => es[i].id # es[j].id
       /\ \A i \in DOMAIN es :
            /\ Range(es[i].locations)
                 = {<<path(messages[k]), 0>> :
                      k \in {l \in DOMAIN messages : messages[l].msgid = es[i].id}}
            /\ \A j \in 1..(Len(es[i].locations) - 1) :
                 StrLess(es[i].locations[j][1], es[i].locations[j + 1][1])

\* a written entry joins the locations of two different nodes of equal text
C4_Witness ==
  /\ pc = "written"
  /\ \E k, l \in DOMAIN messages :
       /\ messages[k].msgid = messages[l].msgid
       /\ messages[k].msgid # ""
       /\ messages[k].entity_uuid # messages[l].entity_uuid

OptionalField(m) ==
  \/ m.entity_type \in {"chapter", "question"} /\ m.entity_attribute = "text"
  \/ m.entity_type = "answer" /\ m.entity_attribute = "advice"

\* C5: no message of an optional field is empty; after the traversal returned,
\* every field of every reached node that the specification emits always is in
\* the message list, empty or not; and no entry of the written catalog has an
\* empty msgid.
C5_EmptyFieldFiltering ==
  /\ \A i \in DOMAIN messages : OptionalField(messages[i]) => messages[i].msgid # ""
  /\ pc \in {"returned", "written"} =>
       \A n \in Reached : \A k \in DOMAIN OwnSeq(n) : OwnSeq(n)[k] \in Range(messages)
  /\ pc = "written" => \A i \in DOMAIN file.messages : file.messages[i].id # ""

\* a catalog was written from a message list that holds an empty always-emitted
\* field, for a model with a reached node whose optional field is empty
C5_Witness ==
  /\ pc = "written"
  /\ \E i \in DOMAIN messages : messages[i].msgid = ""
  /\ \E n \in Reached : n[1] = "question" /\ Node(n) # None /\ Node(n).text = ""
  /\ file.messages # <<>>

\* C6: the file changes only in the step from a returned traversal to the
\* written catalog, and never in or after a step that aborts the run.
C6_FileWrittenOnlyAfterReturn ==
  [][/\ file' # file => pc = "returned" /\ calls = <<>> /\ pc' = "written"
     /\ (pc' = "aborted" \/ pc = "aborted" \/ pc = "running") => file' = file]_vars

\* a traversal aborted after it had appended messages, and the file is absent
C6_Witness == pc = "aborted" /\ messages # <<>> /\ file = NoFile

\* C7: every call of extract_messages on the extractor returns the messages
\* of the first call, and every catalog written is the catalog of the first
\* call's messages.
C7_SecondRunSameAsFirst ==
  /\ \A i \in DOMAIN returns : returns[i] = returns[1]
  /\ pc = "written" => file = build_pot(returns[1])

\* the second call returned a non-empty list and its catalog was written
C7_Witness == Len(returns) = 2 /\ returns[1] # <<>> /\ pc = "written" /\ runs = 2

\* the messages of the subtree of node n in depth-first pre-order: its own
\* fields, then the subtrees of its list entries in ChildList order
RECURSIVE PreOrder(_), PreOrderAll(_)
PreOrder(n) == OwnSeq(n) \o PreOrderAll(ChildList(n))
PreOrderAll(ns) == IF ns = <<>> THEN <<>> ELSE PreOrder(Head(ns)) \o PreOrderAll(Tail(ns))

LiveTypes ==
  {"chapter", "question", "choice", "answer", "url-reference", "cross-reference"}

\* C9: every message has one of the six types of the chapter traversal, and
\* every pending visitor call is a call of the chapter, question, choice,
\* answer or reference visitor, although the registry holds tags, metrics,
\* phases, resource collections and resource pages.
C9_OnlyChapterTraversalTypes ==
  /\ \A i \in DOMAIN messages : messages[i].entity_type \in LiveTypes
  /\ \A i \in DOMAIN calls :
       calls[i].fn \in {"chapter", "question", "choice", "answer", "reference"}
  /\ \A r \in DOMAIN returns : \A i \in DOMAIN returns[r] :
       returns[r][i].entity_type \in LiveTypes

\* a non-empty catalog was written while the registry holds a tag, a metric,
\* a phase, a resource collection and a resource page
C9_Witness ==
  /\ pc = "written"
  /\ file.messages # <<>>
  /\ DOMAIN km.entities.tags # {} /\ DOMAIN km.entities.metrics # {}
  /\ DOMAIN km.entities.phases # {} /\ DOMAIN km.entities.resource_collections # {}
  /\ DOMAIN km.entities.resource_pages # {}

====
